---------------------------- MODULE Spec2Model ----------------------------
(***************************************************************************)
(* Model of convert_examples_to_features and _truncate_seq_pair of         *)
(* nemo/collections/nlp/data/datasets/glue_benchmark_dataset.py.           *)
(*                                                                         *)
(* One call of convert_examples_to_features is a run of the state machine: *)
(* the arguments are fixed by Init, the loop body is cut into the steps    *)
(* Tokenize, the iterations of _truncate_seq_pair, Assemble, Pad, Validate *)
(* and ResolveLabel, and Return ends the call.  A raised exception ends    *)
(* the run in pc = "raised" with nothing returned.                         *)
(*                                                                         *)
(* A text is a sequence of words; the word " " stands for white space,     *)
(* which the tokenizer drops.  The empty sequence is the absent (None or   *)
(* "") text.  A token is a string; an unset optional token is None.        *)
(***************************************************************************)
EXTENDS Integers, Sequences, FiniteSets

VARIABLES
    \* arguments of convert_examples_to_features
    examples, label_list, max_seq_length, output_mode,
    bos_token, eos_token, cls_token, sep_token_extra,
    cls_token_at_end, cls_token_segment_id, pad_token_segment_id,
    pad_on_left, mask_padding_with_zero,
    \* locals of convert_examples_to_features
    features, ex_index, tokens_a, tokens_b, special_tokens_count,
    tokens, segment_ids, input_ids, input_mask, padding_length,
    \* parameter of _truncate_seq_pair
    max_length,
    \* control: position in the code, exception raised, value returned
    pc, raised, returned,
    \* history: the lists _truncate_seq_pair was called with, the number
    \* of pop() calls it made, the three sequences before padding
    call_a, call_b, pops, unpadded

args == <<examples, label_list, max_seq_length, output_mode,
          bos_token, eos_token, cls_token, sep_token_extra,
          cls_token_at_end, cls_token_segment_id, pad_token_segment_id,
          pad_on_left, mask_padding_with_zero>>

locals == <<features, ex_index, tokens_a, tokens_b, special_tokens_count,
            tokens, segment_ids, input_ids, input_mask, padding_length>>

vars == <<args, locals, max_length, pc, raised, returned,
          call_a, call_b, pops, unpadded>>

-----------------------------------------------------------------------------
(* Bounds of the model. *)

\* longest text, in tokens, of the examples of Spec
MaxLen == 3
\* largest max_seq_length of Spec
MaxSeqLength == 7
\* most examples in one call of SpecBatch
MaxExamples == 2
\* longest list handed to _truncate_seq_pair in SpecTrunc
MaxPairLen == 10

-----------------------------------------------------------------------------
(* Values. *)

None == "None"

Truthy(x) == x # None

pad_token == "[PAD]"

sequence_a_segment_id == 0

sequence_b_segment_id == 1

AWords == <<"a1", "a2", "a3", "a4", "a5", "a6", "a7", "a8", "a9", "a10", "a11", "a12">>

BWords == <<"b1", "b2", "b3", "b4", "b5", "b6", "b7", "b8", "b9", "b10", "b11", "b12">>

Blank == " "

Min(x, y) == IF x <= y THEN x ELSE y

Max(x, y) == IF x >= y THEN x ELSE y

Prefix(s, n) == SubSeq(s, 1, Min(Len(s), Max(n, 0)))

\* Python's [x] * n: the empty list when n <= 0
Repeat(x, n) == [i \in 1 .. Max(n, 0) |-> x]

\* Python's s[:n]: for n < 0 all but the last -n elements
SliceTo(s, n) == IF n >= 0 THEN Prefix(s, n) ELSE Prefix(s, Len(s) + n)

\* Python's truth value of a str: only "" (and None) is false
TextTruthy(text) == Len(text) > 0

-----------------------------------------------------------------------------
(* The tokenizer. *)

Vocab == <<pad_token, "[CLS]", "[SEP]", "<BOS>", "[EXTRA]">> \o AWords \o BWords

TokId(t) == (CHOOSE i \in 1 .. Len(Vocab) : Vocab[i] = t) - 1

tokens_to_ids(toks) == [i \in 1 .. Len(toks) |-> TokId(toks[i])]

text_to_tokens(text) == SelectSeq(text, LAMBDA w : w # Blank)

-----------------------------------------------------------------------------
(* convert_examples_to_features: the pieces of the loop body. *)

example == examples[ex_index + 1]

\* a label_map that counts from one
label_map_FromOne(label) ==
    CHOOSE i \in 1 .. Len(label_list) :
        /\ label_list[i] = label
        /\ \A j \in (i + 1) .. Len(label_list) : label_list[j] # label

\* label_map: a later duplicate of a label overwrites the earlier index
label_map(label) ==
    (CHOOSE i \in 1 .. Len(label_list) :
        /\ label_list[i] = label
        /\ \A j \in (i + 1) .. Len(label_list) : label_list[j] # label) - 1

InLabelMap(label) == \E i \in 1 .. Len(label_list) : label_list[i] = label

\* a two-text reservation that forgets cls_token
PairSpecialTokensCount_NoCls ==
      (IF Truthy(eos_token) THEN 2 ELSE 0)
    + (IF Truthy(sep_token_extra) THEN 1 ELSE 0)
    + (IF Truthy(bos_token) THEN 2 ELSE 0)

\* the two-text branch's reservation
PairSpecialTokensCount ==
      (IF Truthy(eos_token) THEN 2 ELSE 0)
    + (IF Truthy(sep_token_extra) THEN 1 ELSE 0)
    + (IF Truthy(bos_token) THEN 2 ELSE 0)
    + (IF Truthy(cls_token) THEN 1 ELSE 0)

\* the one-text branch's reservation
SingleSpecialTokensCount ==
      (IF Truthy(eos_token) THEN 1 ELSE 0)
    + (IF Truthy(sep_token_extra) THEN 1 ELSE 0)
    + (IF Truthy(bos_token) THEN 1 ELSE 0)

\* the one-text branch's cut
TruncateSingle(toks, n) == IF Len(toks) > n THEN SliceTo(toks, n) ELSE toks

\* a cls insertion that ignores cls_token_at_end
AddClsToken_Front(seq, value) ==
    IF ~Truthy(cls_token) THEN seq ELSE <<value>> \o seq

\* lines 151-157, for tokens (value = cls_token) and for segment_ids
\* (value = cls_token_segment_id)
AddClsToken(seq, value) ==
    IF ~Truthy(cls_token) THEN seq
    ELSE IF cls_token_at_end THEN seq \o <<value>>
    ELSE <<value>> \o seq

\* tokens and segment_ids as lines 127-157 build them from tokens_a and
\* tokens_b; list_a is the list object tokens_a afterwards, which
\* "tokens = tokens_a" aliases until tokens is rebound
AssembleSequence(ta, tb) ==
    LET t1 == IF Truthy(bos_token) THEN <<bos_token>> \o ta ELSE ta
        t2 == IF Truthy(eos_token) THEN t1 \o <<eos_token>> ELSE t1
        s2 == Repeat(sequence_a_segment_id, Len(t2))
        sep == tb # <<>> /\ Truthy(sep_token_extra)
        t3 == IF sep THEN t2 \o <<sep_token_extra>> ELSE t2
        s3 == IF sep THEN s2 \o <<sequence_a_segment_id>> ELSE s2
        bosb == IF Truthy(bos_token) THEN <<bos_token>> ELSE <<>>
        eosb == IF Truthy(eos_token) THEN <<eos_token>> ELSE <<>>
        t4 == IF tb # <<>> THEN t3 \o bosb \o tb \o eosb ELSE t3
        s4 == IF tb # <<>>
              THEN s3 \o Repeat(sequence_b_segment_id, Len(bosb) + Len(tb) + Len(eosb))
              ELSE s3
        t5 == AddClsToken(t4, cls_token)
        s5 == AddClsToken(s4, cls_token_segment_id)
    IN  [tokens |-> t5, segment_ids |-> s5,
         list_a |-> IF Truthy(bos_token) THEN ta
                    ELSE IF Truthy(cls_token) /\ ~cls_token_at_end THEN t4
                    ELSE t5]

RealMask == IF mask_padding_with_zero THEN 1 ELSE 0

\* a padding value copied from the real tokens' value
PadMask_AsReal == IF mask_padding_with_zero THEN 1 ELSE 0

PadMask == IF mask_padding_with_zero THEN 0 ELSE 1

\* padding that ignores pad_on_left
PadSequence_Right(content, value, n) == content \o Repeat(value, n)

\* lines 167-174, for one of the three sequences
PadSequence(content, value, n) ==
    IF pad_on_left THEN Repeat(value, n) \o content
    ELSE content \o Repeat(value, n)

\* a length test that only catches sequences that are too short
LengthsValid_OnlyShort ==
    /\ Len(input_ids) >= max_seq_length
    /\ Len(input_mask) >= max_seq_length
    /\ Len(segment_ids) >= max_seq_length

\* lines 175-180: no ValueError is raised
LengthsValid ==
    /\ Len(input_ids) = max_seq_length
    /\ Len(input_mask) = max_seq_length
    /\ Len(segment_ids) = max_seq_length

\* np.float32(label) parses a numeral and raises ValueError otherwise
IsNumeral(label) == label \in {"3.5"}

\* lines 181-186: the label_id, or the exception raised
LabelOutcome(label) ==
    IF output_mode = "classification"
    THEN IF InLabelMap(label)
         THEN [ok |-> TRUE, label_id |-> label_map(label)]
         ELSE [ok |-> FALSE, error |-> "KeyError"]
    ELSE IF output_mode = "regression"
    THEN IF IsNumeral(label)
         THEN [ok |-> TRUE, label_id |-> [float32 |-> label]]
         ELSE [ok |-> FALSE, error |-> "ValueError"]
    ELSE [ok |-> FALSE, error |-> "KeyError"]

InputFeatures(ids, mask, segs, label_id) ==
    [input_ids |-> ids, input_mask |-> mask, segment_ids |-> segs, label_id |-> label_id]

-----------------------------------------------------------------------------
(* _truncate_seq_pair. *)

\* an exit test that asks for room to spare
WithinBudget_Strict(a, b, n) == Len(a) + Len(b) < n

\* lines 212-213: the loop's exit test
WithinBudget(a, b, n) == Len(a) + Len(b) <= n

\* the shorter list loses its last token
PopsFromA_Shorter(a, b) == Len(a) < Len(b)

\* a tie shrinks tokens_a
PopsFromA_Ties(a, b) == Len(a) >= Len(b)

\* line 215: which list loses its last token
PopsFromA(a, b) == Len(a) > Len(b)

Pop(s) == SubSeq(s, 1, Len(s) - 1)

\* line 211-214: the loop ends
TruncateBreak ==
    /\ pc = "truncate"
    /\ WithinBudget(tokens_a, tokens_b, max_length)
    /\ pc' = "assemble"
    /\ UNCHANGED <<args, locals, max_length, raised, returned,
                   call_a, call_b, pops, unpadded>>

\* lines 215-218: one token is removed
TruncatePop ==
    /\ pc = "truncate"
    /\ ~WithinBudget(tokens_a, tokens_b, max_length)
    /\ IF PopsFromA(tokens_a, tokens_b)
       THEN Len(tokens_a) > 0 /\ tokens_a' = Pop(tokens_a) /\ tokens_b' = tokens_b
       ELSE Len(tokens_b) > 0 /\ tokens_b' = Pop(tokens_b) /\ tokens_a' = tokens_a
    /\ pops' = pops + 1
    /\ UNCHANGED <<args, features, ex_index, special_tokens_count, tokens,
                   segment_ids, input_ids, input_mask, padding_length,
                   max_length, pc, raised, returned, call_a, call_b, unpadded>>

\* lines 215-218: pop() on an empty list raises IndexError
TruncateIndexError ==
    /\ pc = "truncate"
    /\ ~WithinBudget(tokens_a, tokens_b, max_length)
    /\ IF PopsFromA(tokens_a, tokens_b) THEN Len(tokens_a) = 0 ELSE Len(tokens_b) = 0
    /\ pc' = "raised"
    /\ raised' = "IndexError"
    /\ UNCHANGED <<args, locals, max_length, returned, call_a, call_b, pops, unpadded>>

-----------------------------------------------------------------------------
(* convert_examples_to_features: the steps. *)

\* lines 105-125
Tokenize ==
    /\ pc = "loop"
    /\ ex_index < Len(examples)
    /\ IF TextTruthy(example.text_b)
       THEN /\ tokens_a' = text_to_tokens(example.text_a)
            /\ tokens_b' = text_to_tokens(example.text_b)
            /\ special_tokens_count' = PairSpecialTokensCount
            /\ max_length' = max_seq_length - PairSpecialTokensCount
            /\ call_a' = text_to_tokens(example.text_a)
            /\ call_b' = text_to_tokens(example.text_b)
            /\ pc' = "truncate"
       ELSE /\ tokens_a' = TruncateSingle(text_to_tokens(example.text_a),
                                          max_seq_length - SingleSpecialTokensCount)
            /\ tokens_b' = <<>>
            /\ special_tokens_count' = SingleSpecialTokensCount
            /\ pc' = "assemble"
            /\ UNCHANGED <<max_length, call_a, call_b>>
    /\ pops' = 0
    /\ UNCHANGED <<args, features, ex_index, tokens, segment_ids, input_ids,
                   input_mask, padding_length, raised, returned, unpadded>>

\* lines 126-158
Assemble ==
    /\ pc = "assemble"
    /\ LET r == AssembleSequence(tokens_a, tokens_b)
       IN  /\ tokens' = r.tokens
           /\ segment_ids' = r.segment_ids
           /\ input_ids' = tokens_to_ids(r.tokens)
           /\ tokens_a' = r.list_a
    /\ pc' = "pad"
    /\ UNCHANGED <<args, features, ex_index, tokens_b, special_tokens_count,
                   input_mask, padding_length, max_length, raised, returned,
                   call_a, call_b, pops, unpadded>>

\* lines 160-174
Pad ==
    /\ pc = "pad"
    /\ LET mask == Repeat(RealMask, Len(input_ids))
           n == max_seq_length - Len(input_ids)
       IN  /\ padding_length' = n
           /\ input_ids' = PadSequence(input_ids, TokId(pad_token), n)
           /\ input_mask' = PadSequence(mask, PadMask, n)
           /\ segment_ids' = PadSequence(segment_ids, pad_token_segment_id, n)
           /\ unpadded' = [input_ids |-> input_ids, input_mask |-> mask,
                           segment_ids |-> segment_ids]
    /\ pc' = "validate"
    /\ UNCHANGED <<args, features, ex_index, tokens_a, tokens_b,
                   special_tokens_count, tokens, max_length, raised, returned,
                   call_a, call_b, pops>>

\* lines 175-180
Validate ==
    /\ pc = "validate"
    /\ IF LengthsValid
       THEN pc' = "label" /\ raised' = raised
       ELSE pc' = "raised" /\ raised' = "ValueError"
    /\ UNCHANGED <<args, locals, max_length, returned, call_a, call_b, pops, unpadded>>

\* lines 181-199
ResolveLabel ==
    /\ pc = "label"
    /\ LET r == LabelOutcome(example.label)
       IN  IF r.ok
           THEN /\ features' = Append(features,
                        InputFeatures(input_ids, input_mask, segment_ids, r.label_id))
                /\ ex_index' = ex_index + 1
                /\ pc' = "loop"
                /\ raised' = raised
           ELSE /\ pc' = "raised"
                /\ raised' = r.error
                /\ UNCHANGED <<features, ex_index>>
    /\ UNCHANGED <<args, tokens_a, tokens_b, special_tokens_count, tokens,
                   segment_ids, input_ids, input_mask, padding_length,
                   max_length, returned, call_a, call_b, pops, unpadded>>

\* line 200
Return ==
    /\ pc = "loop"
    /\ ex_index = Len(examples)
    /\ returned' = features
    /\ pc' = "done"
    /\ UNCHANGED <<args, locals, max_length, raised, call_a, call_b, pops, unpadded>>

-----------------------------------------------------------------------------
(* The inputs. *)

TextsA(n) == {Prefix(AWords, k) : k \in 0 .. n}

\* no second text, a second text of white space only, a second text of words
TextsB(n) == {<<>>, <<Blank>>} \cup {Prefix(BWords, k) : k \in 1 .. n}

ListsUpTo(S, n) == UNION {[1 .. k -> S] : k \in 0 .. n}

\* cls_token_segment_id and pad_token_segment_id: BERT's and XLNet's
SegmentIdChoices == {<<0, 0>>, <<2, 4>>}

NoUnpadded == [input_ids |-> <<>>, input_mask |-> <<>>, segment_ids |-> <<>>]

InitLocals ==
    /\ features = <<>>
    /\ ex_index = 0
    /\ tokens_a = <<>>
    /\ tokens_b = <<>>
    /\ special_tokens_count = 0
    /\ tokens = <<>>
    /\ segment_ids = <<>>
    /\ input_ids = <<>>
    /\ input_mask = <<>>
    /\ padding_length = 0
    /\ max_length = 0
    /\ raised = "none"
    /\ returned = <<>>
    /\ call_a = <<>>
    /\ call_b = <<>>
    /\ pops = 0
    /\ unpadded = NoUnpadded

\* one example, every configuration of the special tokens
Init ==
    /\ examples \in [1 .. 1 -> [text_a : TextsA(MaxLen), text_b : TextsB(MaxLen),
                                label : {"pos"}]]
    /\ label_list = <<"neg", "pos">>
    /\ max_seq_length \in 0 .. MaxSeqLength
    /\ output_mode = "classification"
    /\ bos_token \in {None, "<BOS>"}
    /\ eos_token \in {None, "[SEP]"}
    /\ cls_token \in {None, "[CLS]"}
    /\ sep_token_extra \in {None, "[EXTRA]"}
    /\ cls_token_at_end \in BOOLEAN
    /\ \E ids \in SegmentIdChoices :
          cls_token_segment_id = ids[1] /\ pad_token_segment_id = ids[2]
    /\ pad_on_left \in BOOLEAN
    /\ mask_padding_with_zero \in BOOLEAN
    /\ pc = "loop"
    /\ InitLocals

Next ==
    \/ Tokenize
    \/ TruncateBreak
    \/ TruncatePop
    \/ TruncateIndexError
    \/ Assemble
    \/ Pad
    \/ Validate
    \/ ResolveLabel
    \/ Return

Spec == Init /\ [][Next]_vars

\* The truncation loop in its caller: every choice of special tokens, with
\* the arguments that only matter after the loop held at their defaults.
\* The call is sequential code: it takes its next step until it returns
\* or raises.
InitLoop ==
    /\ Init
    /\ ~cls_token_at_end
    /\ ~pad_on_left
    /\ mask_padding_with_zero
    /\ cls_token_segment_id = 0

SpecLoop == InitLoop /\ [][Next]_vars /\ WF_vars(Next)

-----------------------------------------------------------------------------
(* Calls with several examples, under the default (BERT) configuration and *)
(* an XLNet-like one, in every output mode.                                *)

BatchExamples ==
    [text_a : {Prefix(AWords, 1), Prefix(AWords, 3)},
     text_b : {<<>>, Prefix(BWords, 1)},
     label : {"neg", "pos", "unk", "3.5"}]

BatchLengths == {1, 6}

InitBatch ==
    /\ examples \in ListsUpTo(BatchExamples, MaxExamples)
    /\ label_list \in {<<"neg", "pos">>, <<"pos", "neg", "pos">>}
    /\ max_seq_length \in BatchLengths
    /\ output_mode \in {"classification", "regression", "ranking"}
    /\ bos_token = None
    /\ eos_token = "[SEP]"
    /\ cls_token = "[CLS]"
    /\ sep_token_extra = None
    /\ \E xlnet \in BOOLEAN :
          /\ cls_token_at_end = xlnet
          /\ pad_on_left = xlnet
          /\ cls_token_segment_id = (IF xlnet THEN 2 ELSE 0)
          /\ pad_token_segment_id = (IF xlnet THEN 4 ELSE 0)
    /\ mask_padding_with_zero = TRUE
    /\ pc = "loop"
    /\ InitLocals

SpecBatch == InitBatch /\ [][Next]_vars

-----------------------------------------------------------------------------
(* _truncate_seq_pair alone, called with any two lists and any max_length. *)

InitTrunc ==
    /\ examples = <<>>
    /\ label_list = <<"neg", "pos">>
    /\ max_seq_length = 0
    /\ output_mode = "classification"
    /\ bos_token = None
    /\ eos_token = "[SEP]"
    /\ cls_token = "[CLS]"
    /\ sep_token_extra = None
    /\ cls_token_at_end = FALSE
    /\ cls_token_segment_id = 0
    /\ pad_token_segment_id = 0
    /\ pad_on_left = FALSE
    /\ mask_padding_with_zero = TRUE
    /\ features = <<>>
    /\ ex_index = 0
    /\ tokens_a \in TextsA(MaxPairLen)
    /\ tokens_b \in {Prefix(BWords, k) : k \in 0 .. MaxPairLen}
    /\ special_tokens_count = 0
    /\ tokens = <<>>
    /\ segment_ids = <<>>
    /\ input_ids = <<>>
    /\ input_mask = <<>>
    /\ padding_length = 0
    /\ max_length \in (0 - 2) .. (2 * MaxPairLen + 1)
    /\ pc = "truncate"
    /\ raised = "none"
    /\ returned = <<>>
    /\ call_a = tokens_a
    /\ call_b = tokens_b
    /\ pops = 0
    /\ unpadded = NoUnpadded

NextTrunc ==
    \/ TruncateBreak
    \/ TruncatePop
    \/ TruncateIndexError

SpecTrunc == InitTrunc /\ [][NextTrunc]_vars

-----------------------------------------------------------------------------
(* Vocabulary of the properties. *)

\* the example being encoded has a second text
TwoTexts == ex_index < Len(examples) /\ TextTruthy(example.text_b)

\* the example being encoded has no second text
OneText == ex_index < Len(examples) /\ ~TextTruthy(example.text_b)

\* s is t cut to its first Len(s) elements
IsPrefix(s, t) == Len(s) <= Len(t) /\ s = SubSeq(t, 1, Len(s))

CountOf(seq, S) == Cardinality({i \in 1 .. Len(seq) : seq[i] \in S})

SetTokens(S) == {t \in S : Truthy(t)}

\* the special tokens in the sequence assembled for the current example
SpecialsInserted == CountOf(tokens, SetTokens({bos_token, eos_token, cls_token, sep_token_extra}))

\* a record was appended for the example just encoded, whose locals are
\* still in place
Emitted == pc \in {"loop", "done"} /\ ex_index > 0 /\ Len(features) = ex_index

LastFeature == features[Len(features)]

HasLength(f, n) ==
    /\ Len(f.input_ids) = n
    /\ Len(f.input_mask) = n
    /\ Len(f.segment_ids) = n

-----------------------------------------------------------------------------
(* C1: every feature record that convert_examples_to_features builds and   *)
(* returns has input_ids, input_mask and segment_ids of length exactly     *)
(* max_seq_length.                                                         *)
C1_LengthInvariant ==
    /\ \A i \in 1 .. Len(features) : HasLength(features[i], max_seq_length)
    /\ \A i \in 1 .. Len(returned) : HasLength(returned[i], max_seq_length)

\* a record is returned for an example that was truncated and one that was padded
C1_Witness ==
    /\ pc = "done"
    /\ Len(returned) = 1
    /\ pops > 0
    /\ padding_length = 0
    /\ HasLength(returned[1], max_seq_length)

\* the special tokens lines 128-131 and 151-157 insert for one text
C2_Reserved ==
      (IF Truthy(bos_token) THEN 1 ELSE 0)
    + (IF Truthy(eos_token) THEN 1 ELSE 0)
    + (IF Truthy(cls_token) THEN 1 ELSE 0)

-----------------------------------------------------------------------------
(* C2: for a one-text example, tokens_a is cut to a prefix of at most      *)
(* max_seq_length - reserved tokens, where reserved counts bos_token,      *)
(* eos_token and cls_token when set; so when max_seq_length >= reserved    *)
(* the assembled sequence has at most max_seq_length entries and the       *)
(* length validation does not raise.                                       *)
C2_OneTextFits ==
    (OneText /\ max_seq_length >= C2_Reserved) =>
        /\ pc = "assemble" =>
              /\ IsPrefix(tokens_a, text_to_tokens(example.text_a))
              /\ Len(tokens_a) <= max_seq_length - C2_Reserved
        /\ pc \in {"pad", "validate", "label"} => Len(tokens) <= max_seq_length
        /\ raised # "ValueError"

-----------------------------------------------------------------------------
(* C3: _truncate_seq_pair(tokens_a, tokens_b, budget): when                *)
(* 2 * min(len a, len b) <= budget < len a + len b, the shorter list is    *)
(* left untouched and the longer one is cut to its prefix of length        *)
(* budget - min(len a, len b); when len a + len b <= budget neither list   *)
(* changes.  In both cases the function returns.                           *)
C3_ShorterUntouched ==
    LET la == Len(call_a)
        lb == Len(call_b)
        m == Min(la, lb)
    IN  /\ (2 * m <= max_length /\ max_length < la + lb) =>
              /\ pc # "raised"
              /\ pc = "assemble" =>
                    /\ la < lb => tokens_a = call_a /\ tokens_b = Prefix(call_b, max_length - m)
                    /\ lb < la => tokens_b = call_b /\ tokens_a = Prefix(call_a, max_length - m)
                    /\ la # lb
        /\ la + lb <= max_length =>
              /\ pc # "raised"
              /\ pops = 0
              /\ tokens_a = call_a
              /\ tokens_b = call_b

\* lengths 10 and 3 with budget 8 give 5 and 3
C3_Witness ==
    /\ pc = "assemble"
    /\ Len(call_a) = 10
    /\ Len(call_b) = 3
    /\ max_length = 8
    /\ Len(tokens_a) = 5
    /\ tokens_b = call_b

\* the removals that bring the pair down to max_seq_length - reserved
C8_Removals ==
    Max(0, Len(call_a) + Len(call_b) - (max_seq_length - special_tokens_count))

C8_LoopResult ==
    /\ Len(tokens_a) + Len(tokens_b) <= max_seq_length - special_tokens_count
    /\ pops = C8_Removals

-----------------------------------------------------------------------------
(* C8: for every two-text example, every max_seq_length and every          *)
(* configuration, the truncation loop ends with                            *)
(* len(tokens_a) + len(tokens_b) <= max_seq_length - reserved after        *)
(* exactly max(0, len a + len b - (max_seq_length - reserved)) removals,   *)
(* and never tries to remove a token from an empty list.                   *)
C8_Original ==
    TwoTexts =>
        /\ raised # "IndexError"
        /\ pc = "truncate" => pops <= C8_Removals
        /\ pc = "assemble" => C8_LoopResult

\* the loop's result when max_seq_length >= reserved, its failure otherwise
C8_Amended ==
    TwoTexts =>
        /\ pc = "truncate" =>
              pops + Len(tokens_a) + Len(tokens_b) = Len(call_a) + Len(call_b)
        /\ max_seq_length >= special_tokens_count =>
              /\ raised # "IndexError"
              /\ pc = "truncate" => pops <= C8_Removals
              /\ pc = "assemble" => C8_LoopResult
        /\ (max_seq_length < special_tokens_count /\ pc # "loop") =>
              /\ pc \in {"truncate", "raised"}
              /\ pc = "raised" =>
                    /\ raised = "IndexError"
                    /\ tokens_a = <<>>
                    /\ tokens_b = <<>>
                    /\ pops = Len(call_a) + Len(call_b)

(* C8 as amended: that holds whenever max_seq_length >= reserved; each     *)
(* removal shortens the two lists by one token in all, and the loop ends.  *)
(* When max_seq_length < reserved the loop removes every token and then    *)
(* raises IndexError on tokens_b.pop().                                    *)
C8_Terminates == []C8_Amended /\ (pc = "truncate" ~> pc # "truncate")

\* the loop has ended after removing more than one token, with every
\* special token set
C8_Witness ==
    /\ TwoTexts
    /\ pc = "assemble"
    /\ pops = 3
    /\ Len(tokens_a) + Len(tokens_b) = max_seq_length - special_tokens_count
    /\ special_tokens_count = 6

\* the reservation as the two-text rule states it
C9_Reserved ==
      (IF Truthy(eos_token) THEN 2 ELSE 0)
    + (IF Truthy(sep_token_extra) THEN 1 ELSE 0)
    + (IF Truthy(bos_token) THEN 2 ELSE 0)
    + (IF Truthy(cls_token) THEN 1 ELSE 0)

-----------------------------------------------------------------------------
(* C9: for a two-text example the reserved count (2 if eos_token, +1 if    *)
(* sep_token_extra, +2 if bos_token, +1 if cls_token) is never smaller     *)
(* than the number of special tokens the assembly inserts and equals it    *)
(* when tokens_b is non-empty after truncation; so for max_seq_length >=   *)
(* reserved the assembled sequence has at most max_seq_length entries and  *)
(* the length validation does not raise.                                   *)
C9_ReservedCoversInserted ==
    TwoTexts =>
        /\ pc \in {"truncate", "assemble"} => special_tokens_count = C9_Reserved
        /\ pc \in {"pad", "validate", "label"} =>
              /\ SpecialsInserted <= C9_Reserved
              /\ tokens_b # <<>> => SpecialsInserted = C9_Reserved
              /\ max_seq_length >= C9_Reserved => Len(tokens) <= max_seq_length
        /\ max_seq_length >= C9_Reserved => raised # "ValueError"

\* a truncated pair with every special token set fills max_seq_length exactly
C9_Witness ==
    /\ TwoTexts
    /\ pc = "label"
    /\ tokens_b # <<>>
    /\ pops > 0
    /\ SpecialsInserted = 6
    /\ Len(tokens) = max_seq_length

\* one removal, as a step
C10_Removal ==
    pops' = pops + 1 =>
        IF Len(tokens_a) > Len(tokens_b)
        THEN tokens_a' = Pop(tokens_a) /\ tokens_b' = tokens_b
        ELSE tokens_b' = Pop(tokens_b) /\ tokens_a' = tokens_a

\* the result when both lists must shrink
C10_Balanced ==
    (0 <= max_length /\ max_length < 2 * Min(Len(call_a), Len(call_b))) =>
        /\ pc # "raised"
        /\ pc = "assemble" =>
              /\ tokens_a = Prefix(call_a, (max_length + 1) \div 2)
              /\ tokens_b = Prefix(call_b, max_length \div 2)
              /\ Len(tokens_a) - Len(tokens_b) \in {0, 1}

-----------------------------------------------------------------------------
(* C10: every removal in _truncate_seq_pair drops the last token of        *)
(* tokens_a only when tokens_a is strictly longer than tokens_b, and       *)
(* otherwise the last token of tokens_b; so when                           *)
(* 0 <= budget < 2 * min(len a, len b) the result is the prefix of         *)
(* tokens_a of length ceil(budget / 2) and the prefix of tokens_b of       *)
(* length floor(budget / 2).                                               *)
C10_TiesShrinkB == []C10_Balanced /\ [][C10_Removal]_vars

\* lengths 3 and 5 with budget 5 give 3 and 2
C10_Witness ==
    /\ pc = "assemble"
    /\ Len(call_a) = 3
    /\ Len(call_b) = 5
    /\ max_length = 5
    /\ Len(tokens_a) = 3
    /\ Len(tokens_b) = 2

-----------------------------------------------------------------------------
(* C4: in every emitted record the number of input_mask entries with the   *)
(* "real" value (1 if mask_padding_with_zero, else 0) is the number of     *)
(* tokens assembled before padding, which is max_seq_length minus the      *)
(* number of padding entries; every other entry has the opposite value.    *)
C4_MaskCounts ==
    Emitted =>
        LET mask == LastFeature.input_mask
            real == IF mask_padding_with_zero THEN 1 ELSE 0
        IN  /\ CountOf(mask, {real}) = Len(tokens)
            /\ CountOf(mask, {real}) = max_seq_length - padding_length
            /\ CountOf(mask, {1 - real}) = padding_length
            /\ Len(mask) = CountOf(mask, {real}) + CountOf(mask, {1 - real})

\* a padded record with the inverted mask polarity
C4_Witness ==
    /\ Emitted
    /\ ~mask_padding_with_zero
    /\ padding_length = 2
    /\ CountOf(LastFeature.input_mask, {0}) = Len(tokens)
    /\ Len(tokens) > 0

C5_FirstReal == IF pad_on_left THEN padding_length + 1 ELSE 1

C5_LastReal == IF pad_on_left THEN max_seq_length ELSE max_seq_length - padding_length

-----------------------------------------------------------------------------
(* C5: when cls_token is set, every emitted record holds the cls marker's  *)
(* id with segment id cls_token_segment_id at the first non-padding        *)
(* position if cls_token_at_end is false and at the last non-padding       *)
(* position if it is true, for both values of pad_on_left; the marker is   *)
(* inserted exactly once.  (No word of a text is a special token here, so  *)
(* the marker's occurrences are its insertions.)                           *)
C5_ClsPlacement ==
    (Emitted /\ Truthy(cls_token)) =>
        LET at == IF cls_token_at_end THEN C5_LastReal ELSE C5_FirstReal
        IN  /\ at \in 1 .. max_seq_length
            /\ LastFeature.input_ids[at] = TokId(cls_token)
            /\ LastFeature.segment_ids[at] = cls_token_segment_id
            /\ CountOf(tokens, {cls_token}) = 1
            /\ CountOf(LastFeature.input_ids, {TokId(cls_token)}) = 1

\* the marker at the end of a two-text record that is padded on the left
C5_Witness ==
    /\ Emitted
    /\ Truthy(cls_token)
    /\ cls_token_at_end
    /\ pad_on_left
    /\ padding_length > 0
    /\ tokens_b # <<>>
    /\ cls_token_segment_id = 2
    /\ LastFeature.segment_ids[max_seq_length] = 2
    /\ LastFeature.input_ids[max_seq_length] = TokId(cls_token)

C6_Layout(padded, content, value, p) ==
    LET n == Len(padded)
    IN  IF pad_on_left
        THEN /\ \A i \in 1 .. p : padded[i] = value
             /\ SubSeq(padded, p + 1, n) = content
        ELSE /\ \A i \in (n - p + 1) .. n : padded[i] = value
             /\ SubSeq(padded, 1, n - p) = content

-----------------------------------------------------------------------------
(* C6: with p = max_seq_length minus the assembled length (p >= 0): if     *)
(* pad_on_left, the first p entries of input_ids, input_mask and           *)
(* segment_ids are the pad token's id, the padding mask value and          *)
(* pad_token_segment_id and the other max_seq_length - p entries are the   *)
(* assembled ids, mask and segments in their order; if not, the padding    *)
(* is the last p entries and the assembled content the first               *)
(* max_seq_length - p.                                                     *)
C6_PaddingSide ==
    Emitted =>
        LET p == max_seq_length - Len(tokens)
            f == LastFeature
        IN  /\ p >= 0
            /\ unpadded.input_ids = tokens_to_ids(tokens)
            /\ C6_Layout(f.input_ids, unpadded.input_ids, TokId(pad_token), p)
            /\ C6_Layout(f.input_mask, unpadded.input_mask,
                         IF mask_padding_with_zero THEN 0 ELSE 1, p)
            /\ C6_Layout(f.segment_ids, unpadded.segment_ids, pad_token_segment_id, p)

\* a two-text record padded on the left with XLNet's segment ids
C6_Witness ==
    /\ Emitted
    /\ pad_on_left
    /\ max_seq_length - Len(tokens) = 2
    /\ pad_token_segment_id = 4
    /\ tokens_b # <<>>
    /\ SubSeq(LastFeature.segment_ids, 1, 2) = <<4, 4>>
    /\ SubSeq(LastFeature.input_ids, 1, 2) = <<TokId(pad_token), TokId(pad_token)>>

C7_Distinct ==
    \A i, j \in 1 .. Len(label_list) : label_list[i] = label_list[j] => i = j

C7_Absent(label) == \A i \in 1 .. Len(label_list) : label_list[i] # label

C7_SomeAbsent == \E i \in 1 .. Len(examples) : C7_Absent(examples[i].label)

C7_LabelsAreIndices ==
    \A i \in 1 .. Len(features) :
        /\ features[i].label_id \in 0 .. (Len(label_list) - 1)
        /\ label_list[features[i].label_id + 1] = examples[i].label

-----------------------------------------------------------------------------
(* C7: in classification mode with a label vocabulary of distinct strings, *)
(* the label of every emitted record is the index of its example's label   *)
(* in the vocabulary; if any example's label is absent from the vocabulary *)
(* the call fails with a key-lookup failure and returns no feature list,   *)
(* not even the records of earlier examples.                               *)
C7_Original ==
    (output_mode = "classification" /\ C7_Distinct) =>
        /\ C7_LabelsAreIndices
        /\ C7_SomeAbsent =>
              /\ pc # "done"
              /\ pc = "raised" => raised = "KeyError" /\ returned = <<>>

(* C7 as amended: the call fails and returns no feature list; the failure  *)
(* is the key-lookup failure of the first example whose label is absent,   *)
(* unless that example or an earlier one fails first in the truncation     *)
(* loop (IndexError) or in the length validation (ValueError).             *)
C7_Amended ==
    (output_mode = "classification" /\ C7_Distinct) =>
        /\ C7_LabelsAreIndices
        /\ C7_SomeAbsent => pc # "done" /\ returned = <<>>
        /\ pc = "raised" =>
              /\ returned = <<>>
              /\ \/ raised = "KeyError" /\ C7_Absent(example.label) /\ LengthsValid
                 \/ raised = "ValueError" /\ ~LengthsValid
                 \/ raised = "IndexError" /\ max_length < 0
              /\ \A i \in 1 .. ex_index : ~C7_Absent(examples[i].label)

\* the second example's label is unknown: the first one's record is dropped
C7_Witness ==
    /\ output_mode = "classification"
    /\ C7_Distinct
    /\ pc = "raised"
    /\ raised = "KeyError"
    /\ Len(features) = 1
    /\ features[1].label_id = 1
    /\ examples[1].label = "pos"
    /\ returned = <<>>

=============================================================================
